---- MODULE Spec2Model ----
(***************************************************************************)
(* Frame scheduling, GPU synchronisation, swapchain recreation and teardown *)
(* of the Vulkan application in src/src/app.rs (App::create, App::render,   *)
(* App::recreate_swapchain, App::destroy) as driven by the event loop of    *)
(* src/src/main.rs, together with the helpers they call.                    *)
(*                                                                         *)
(* Spec follows the whole run of the program; SpecScenario follows the      *)
(* frames of a swapchain of two images handed out alternately;              *)
(* SpecManyImages follows the frames of a swapchain with more images than   *)
(* frame slots; SpecImageCount follows the choice of the image count at     *)
(* swapchain creation; SpecLoadModel follows load_model (vulkan/model.rs)   *)
(* and SpecMemoryType follows get_memory_type_index                         *)
(* (vulkan/buffers/buffer.rs).                                              *)
(*                                                                         *)
(* Vectors of opaque Vulkan handles whose elements are never inspected     *)
(* (framebuffers, command buffers, uniform buffers, ...) are modelled by   *)
(* their length.  Fences and semaphores are modelled by handle: the CPU    *)
(* stores handles in AppData, the device holds their signaled state.       *)
(* Indices are 0-based as in the source; TLA+ sequences are 1-based, so    *)
(* v[i] of the source is v[i + 1] here.                                    *)
(***************************************************************************)
EXTENDS Integers, Sequences, FiniteSets, TLC

----------------------------------------------------------------------------
(* Program constants and model bounds *)

\* app.rs:32
MAX_FRAMES_IN_FLIGHT == 3

\* vk::Fence::null()
NullFence == 0

\* Largest swapchain image count the driver hands out in the model.
MaxImages == 3

\* Number of fallible create_* steps of recreate_swapchain (app.rs:90-99).
NumCreateSteps == 10

\* Most frames the device holds unfinished before acquire_next_image_khr blocks.
MaxPending == 4

\* Largest minImageCount and maxImageCount a surface reports in the model.
MaxMinImageCount == 8

MaxMaxImageCount == 10

ImageCounts == 1..MaxImages
FenceHandles == 1..MAX_FRAMES_IN_FLIGHT
SemaphoreHandles == 1..(2 * MAX_FRAMES_IN_FLIGHT)

VARIABLES
    data,           \* App.data : AppData
    frame,          \* App.frame
    resized,        \* App.resized
    pc,             \* position of the control thread
    image_index,    \* local of App::render (valid while pc = "wait_image")
    ret,            \* what the last App::render call returned
    log,            \* device calls made by the current / last App::render call
    fenceSignaled,  \* device state of every fence created
    semSignaled,    \* device state of every semaphore created
    gpu,            \* frames whose device work is not finished, oldest first
    resizeEvent,    \* a WindowEvent::Resized was delivered since the last
                    \* App::render call started
    calls           \* App::render calls started so far, counted up to
                    \* MAX_FRAMES_IN_FLIGHT + 1 ("more than MAX_FRAMES_IN_FLIGHT")

vars == <<data, frame, resized, pc, image_index, ret, log,
          fenceSignaled, semSignaled, gpu, resizeEvent, calls>>

----------------------------------------------------------------------------
(* AppData and the functions that build it *)

\* Vec::resize(new_len, value)
VecResize(v, n, x) == [k \in 1..n |-> IF k <= Len(v) THEN v[k] ELSE x]

\* The handles of AppData that App::destroy_swapchain destroys (app.rs:139-166)
ScopedObjects ==
    {"swapchain", "swapchain_image_views", "render_pass", "pipeline",
     "depth_image_view", "framebuffers", "uniform_buffers", "descriptor_pool",
     "descriptor_sets", "command_buffers"}

\* #[derive(Default)] AppData.  scoped[o] is the state of the handle(s) held
\* in field o: "null", "live", "destroyed", "empty" (a vector that holds no
\* handle) or "stale" (created from a handle that was not live at the time).
AppDataDefault ==
    [ swapchain                  |-> "null",
      swapchain_images           |-> 0,
      swapchain_image_views      |-> 0,
      framebuffers               |-> 0,
      command_buffers            |-> 0,
      uniform_buffers            |-> 0,
      uniform_buffers_memory     |-> 0,
      descriptor_sets            |-> 0,
      scoped                     |-> [o \in ScopedObjects \ {"swapchain"} |-> "null"],
      image_available_semaphores |-> << >>,
      render_finished_semaphores |-> << >>,
      command_completion_fences  |-> << >>,
      image_usage_fences         |-> << >> ]

\* data.color_image_view is read at framebuffer.rs:24; AppData declares no
\* such field and no function of the sources creates the view, so the handle
\* read is the null handle of a defaulted field throughout.
StatusOf(d, o) ==
    CASE o = "swapchain"        -> d.swapchain
      [] o = "color_image_view" -> "null"
      [] OTHER                  -> d.scoped[o]

\* The swapchain-scoped fields of AppData the function creating o reads
\* (swapchain stands for swapchain, swapchain_images, swapchain_format and
\* swapchain_extent, which create_swapchain writes together)
Reads(o) ==
    CASE o = "swapchain"             -> {}
      [] o = "swapchain_image_views" -> {"swapchain"}
      [] o = "render_pass"           -> {"swapchain"}
      [] o = "pipeline"              -> {"swapchain", "render_pass"}
      [] o = "depth_image_view"      -> {"swapchain"}
      [] o = "framebuffers"          -> {"swapchain", "swapchain_image_views",
                                         "render_pass", "depth_image_view",
                                         "color_image_view"}
      [] o = "uniform_buffers"       -> {"swapchain"}
      [] o = "descriptor_pool"       -> {"swapchain"}
      [] o = "descriptor_sets"       -> {"swapchain", "uniform_buffers",
                                         "descriptor_pool"}
      [] o = "command_buffers"       -> {"swapchain", "render_pass", "pipeline",
                                         "framebuffers"}

\* A create_* function stores the handle(s) it made from what it read
Created(d, o) ==
    [d EXCEPT !.scoped[o] = IF \A r \in Reads(o) : StatusOf(d, r) = "live"
                            THEN "live" ELSE "stale"]

\* vulkan/swapchain.rs is not part of the sources: the swapchain is replaced
\* wholesale and holds the n images the driver created.
create_swapchain(d, n) ==
    [d EXCEPT !.swapchain = "live", !.swapchain_images = n]

\* vulkan/swapchain.rs is not part of the sources: one view per image.
create_swapchain_image_views(d) ==
    [Created(d, "swapchain_image_views")
       EXCEPT !.swapchain_image_views = d.swapchain_images]

\* data.render_pass = device.create_render_pass(..)
create_render_pass(d) == Created(d, "render_pass")

\* data.pipeline_layout, data.pipeline = ..
create_pipeline(d) == Created(d, "pipeline")

\* data.depth_image, data.depth_image_memory, data.depth_image_view = ..
create_depth_objects(d) == Created(d, "depth_image_view")

\* data.framebuffers = data.swapchain_image_views.iter().map(..).collect()
create_framebuffers(d) ==
    [Created(d, "framebuffers") EXCEPT !.framebuffers = d.swapchain_image_views]

\* Variant: the vectors are not cleared before the pushes
create_uniform_buffers_noclear(d) ==
    [Created(d, "uniform_buffers")
       EXCEPT !.uniform_buffers        = @ + d.swapchain_images,
              !.uniform_buffers_memory = @ + d.swapchain_images]

\* clear() both vectors, then push one buffer and one memory per image
create_uniform_buffers(d) ==
    [Created(d, "uniform_buffers")
       EXCEPT !.uniform_buffers        = d.swapchain_images,
              !.uniform_buffers_memory = d.swapchain_images]

\* data.descriptor_pool = device.create_descriptor_pool(..)
create_descriptor_pool(d) == Created(d, "descriptor_pool")

\* data.descriptor_sets = allocate_descriptor_sets(layouts), one layout per image
create_descriptor_sets(d) ==
    [Created(d, "descriptor_sets") EXCEPT !.descriptor_sets = d.swapchain_images]

\* command_buffer_count(data.framebuffers.len())
create_command_buffers(d) ==
    [Created(d, "command_buffers") EXCEPT !.command_buffers = d.framebuffers]

\* FenceCreateFlags::SIGNALED
FenceCreatedSignaled == TRUE

\* MAX_FRAMES_IN_FLIGHT pushes per vector; image_usage_fences = vec![null; images]
create_sync_objects(d) ==
    [d EXCEPT
       !.image_available_semaphores =
           @ \o [k \in 1..MAX_FRAMES_IN_FLIGHT |-> k],
       !.render_finished_semaphores =
           @ \o [k \in 1..MAX_FRAMES_IN_FLIGHT |-> MAX_FRAMES_IN_FLIGHT + k],
       !.command_completion_fences =
           @ \o [k \in 1..MAX_FRAMES_IN_FLIGHT |-> k],
       !.image_usage_fences =
           [k \in 1..d.swapchain_images |-> NullFence] ]

\* App::create, the steps that touch the modelled part of AppData, in order
App_create(n) ==
    create_sync_objects(
    create_command_buffers(
    create_descriptor_sets(
    create_descriptor_pool(
    create_uniform_buffers(
    create_framebuffers(
    create_depth_objects(
    create_pipeline(
    create_render_pass(
    create_swapchain_image_views(
    create_swapchain(AppDataDefault, n)))))))))))

\* App::destroy_swapchain: the handles are destroyed, the vectors keep them
destroy_swapchain(d) ==
    [d EXCEPT !.swapchain = "destroyed",
              !.scoped    = [o \in DOMAIN @ |-> "destroyed"]]

\* create_uniform_buffers: one buffer and its memory per image, in turn
UniformBufferCalls(n) ==
    [k \in 1..(2 * n) |->
        IF k % 2 = 1
        THEN [op |-> "create_buffer",
              res |-> "uniform_buffers[" \o ToString((k - 1) \div 2) \o "]"]
        ELSE [op |-> "allocate_memory",
              res |-> "uniform_buffers_memory[" \o ToString((k - 1) \div 2) \o "]"]]

\* create_sync_objects: per slot the image-available semaphore, the
\* render-finished semaphore and the fence, in turn
SyncObjectCalls(d) ==
    [k \in 1..(3 * MAX_FRAMES_IN_FLIGHT) |->
        LET slot == ((k - 1) \div 3) + 1
        IN  CASE k % 3 = 1 ->
                   [op |-> "create_semaphore",
                    res |-> "semaphore" \o ToString(d.image_available_semaphores[slot])]
              [] k % 3 = 2 ->
                   [op |-> "create_semaphore",
                    res |-> "semaphore" \o ToString(d.render_finished_semaphores[slot])]
              [] OTHER ->
                   [op |-> "create_fence",
                    res |-> "fence" \o ToString(d.command_completion_fences[slot])]]

\* The device calls of App::create that produce a handle the App keeps, in
\* order (app.rs:57-79); d is the AppData it returns.  Staging buffers, shader
\* modules and one-time command buffers are released inside the create_*
\* function that made them.  create_instance (vulkan/instance.rs, not part of
\* the sources) creates the debug messenger in a validation build.
App_create_calls(d, validation) ==
    << [op |-> "create_instance", res |-> "instance"] >>
    \o (IF validation
        THEN << [op |-> "create_debug_utils_messenger_ext", res |-> "messenger"] >>
        ELSE << >>)
    \o << [op |-> "create_surface",       res |-> "surface"],
          [op |-> "create_device",        res |-> "device"],
          [op |-> "create_swapchain_khr", res |-> "swapchain"] >>
    \o [k \in 1..d.swapchain_image_views |->
           [op |-> "create_image_view",
            res |-> "swapchain_image_views[" \o ToString(k - 1) \o "]"]]
    \o << [op |-> "create_render_pass",           res |-> "render_pass"],
          [op |-> "create_descriptor_set_layout", res |-> "descriptor_set_layout"],
          [op |-> "create_pipeline_layout",       res |-> "pipeline_layout"],
          [op |-> "create_graphics_pipelines",    res |-> "pipeline"],
          [op |-> "create_command_pool",          res |-> "command_pool"],
          [op |-> "create_image",                 res |-> "depth_image"],
          [op |-> "allocate_memory",              res |-> "depth_image_memory"],
          [op |-> "create_image_view",            res |-> "depth_image_view"] >>
    \o [k \in 1..d.framebuffers |->
           [op |-> "create_framebuffer",
            res |-> "framebuffers[" \o ToString(k - 1) \o "]"]]
    \o << [op |-> "create_image",      res |-> "texture_image"],
          [op |-> "allocate_memory",   res |-> "texture_image_memory"],
          [op |-> "create_image_view", res |-> "texture_image_view"],
          [op |-> "create_sampler",    res |-> "texture_sampler"],
          [op |-> "create_buffer",     res |-> "vertex_buffer"],
          [op |-> "allocate_memory",   res |-> "vertex_buffer_memory"],
          [op |-> "create_buffer",     res |-> "index_buffer"],
          [op |-> "allocate_memory",   res |-> "index_buffer_memory"] >>
    \o UniformBufferCalls(d.uniform_buffers)
    \o << [op |-> "create_descriptor_pool",   res |-> "descriptor_pool"],
          [op |-> "allocate_descriptor_sets", res |-> "descriptor_sets"],
          [op |-> "allocate_command_buffers", res |-> "command_buffers"] >>
    \o SyncObjectCalls(d)

\* One device call per element of a vector field holding n handles
PerElement(op, field, n) ==
    [k \in 1..n |-> [op |-> op, res |-> field \o "[" \o ToString(k - 1) \o "]"]]

\* One device call per handle of a vector of fences or semaphores
PerHandle(op, kind, v) ==
    [k \in 1..Len(v) |-> [op |-> op, res |-> kind \o ToString(v[k])]]

\* The device calls of App::destroy_swapchain, in order (app.rs:140-165)
destroy_swapchain_calls(d) ==
    << [op |-> "destroy_image_view",      res |-> "depth_image_view"],
       [op |-> "free_memory",             res |-> "depth_image_memory"],
       [op |-> "destroy_image",           res |-> "depth_image"],
       [op |-> "destroy_descriptor_pool", res |-> "descriptor_pool"] >>
    \o PerElement("destroy_buffer", "uniform_buffers", d.uniform_buffers)
    \o PerElement("free_memory", "uniform_buffers_memory", d.uniform_buffers_memory)
    \o << [op |-> "free_command_buffers", res |-> "command_buffers"] >>
    \o PerElement("destroy_framebuffer", "framebuffers", d.framebuffers)
    \o << [op |-> "destroy_pipeline",        res |-> "pipeline"],
          [op |-> "destroy_pipeline_layout", res |-> "pipeline_layout"],
          [op |-> "destroy_render_pass",     res |-> "render_pass"] >>
    \o PerElement("destroy_image_view", "swapchain_image_views",
                  d.swapchain_image_views)
    \o << [op |-> "destroy_swapchain_khr", res |-> "swapchain"] >>

\* The device calls of App::destroy, in order (app.rs:109-136).
\* validation: VALIDATION_ENABLED of the build.
App_destroy_calls(d, validation) ==
    destroy_swapchain_calls(d)
    \o << [op |-> "destroy_sampler",    res |-> "texture_sampler"],
          [op |-> "destroy_image_view", res |-> "texture_image_view"],
          [op |-> "destroy_image",      res |-> "texture_image"],
          [op |-> "free_memory",        res |-> "texture_image_memory"],
          [op |-> "destroy_descriptor_set_layout", res |-> "descriptor_set_layout"],
          [op |-> "destroy_buffer",     res |-> "vertex_buffer"],
          [op |-> "free_memory",        res |-> "index_buffer_memory"],
          [op |-> "destroy_buffer",     res |-> "index_buffer"],
          [op |-> "free_memory",        res |-> "vertex_buffer_memory"] >>
    \o PerHandle("destroy_fence", "fence", d.command_completion_fences)
    \o PerHandle("destroy_semaphore", "semaphore", d.render_finished_semaphores)
    \o PerHandle("destroy_semaphore", "semaphore", d.image_available_semaphores)
    \o << [op |-> "destroy_command_pool", res |-> "command_pool"],
          [op |-> "destroy_device",       res |-> "device"] >>
    \o (IF validation
        THEN << [op |-> "destroy_debug_utils_messenger_ext", res |-> "messenger"] >>
        ELSE << >>)
    \o << [op |-> "destroy_surface_khr", res |-> "surface"],
          [op |-> "destroy_instance",    res |-> "instance"] >>

\* App::destroy: what it leaves in AppData
App_destroy(d) == destroy_swapchain(d)

\* The tail of recreate_swapchain (app.rs:100-102)
ResizeFencesAfterRecreate(d) ==
    [d EXCEPT !.command_completion_fences =
                  VecResize(@, d.swapchain_images, NullFence)]

\* The i-th fallible step of recreate_swapchain (app.rs:90-99)
RecreateStep(i, d, n) ==
    CASE i = 1  -> create_swapchain(d, n)
      [] i = 2  -> create_swapchain_image_views(d)
      [] i = 3  -> create_render_pass(d)
      [] i = 4  -> create_pipeline(d)
      [] i = 5  -> create_depth_objects(d)
      [] i = 6  -> create_framebuffers(d)
      [] i = 7  -> create_uniform_buffers(d)
      [] i = 8  -> create_descriptor_pool(d)
      [] i = 9  -> create_descriptor_sets(d)
      [] i = 10 -> create_command_buffers(d)

\* create_uniform_buffers returns the error of the create_buffer call for
\* buffer k (0-based): both vectors were cleared and hold the k pairs pushed
\* before it (uniform_buffer.rs:25-35).  A vector without handles is "empty".
create_uniform_buffers_failed(d, k) ==
    [d EXCEPT !.uniform_buffers        = k,
              !.uniform_buffers_memory = k,
              !.scoped["uniform_buffers"] =
                  IF k = 0 THEN "empty"
                  ELSE Created(d, "uniform_buffers").scoped["uniform_buffers"]]

\* create_command_buffers returns an error: that of allocate_command_buffers
\* (k = 0), before data.command_buffers is assigned, or that of
\* begin_command_buffer / end_command_buffer (k = 1), after it
\* (commands.rs:78, 105, 118)
create_command_buffers_failed(d, k) ==
    IF k = 0 THEN d ELSE create_command_buffers(d)

\* The points at which step i can fail, told apart by what the step has
\* written to AppData by then; n is the image count of the new swapchain.
\* The other steps assign their fields after their last fallible call, or
\* assign fields whose handle status is that of the last one assigned.
FailPoints(i, n) ==
    CASE i = 7  -> 0..(n - 1)
      [] i = 10 -> 0..1
      [] OTHER  -> {0}

\* What the i-th step leaves in AppData when it fails at point k
RecreateStepFailed(i, d, k) ==
    CASE i = 7  -> create_uniform_buffers_failed(d, k)
      [] i = 10 -> create_command_buffers_failed(d, k)
      [] OTHER  -> d

\* Steps i.. of app.rs:90-99; `?` returns at step failAt, which fails at
\* point k
RECURSIVE RunRecreate(_, _, _, _, _)
RunRecreate(d, n, i, failAt, k) ==
    IF i > NumCreateSteps \/ i > failAt
    THEN d
    ELSE IF i = failAt
    THEN RecreateStepFailed(i, d, k)
    ELSE RunRecreate(RecreateStep(i, d, n), n, i + 1, failAt, k)

\* App::recreate_swapchain once device_wait_idle has returned Ok.  The driver
\* creates n images; step failAt fails at point k (failAt > NumCreateSteps:
\* none does).
recreate_swapchain(d, n, failAt, k) ==
    LET built == RunRecreate(destroy_swapchain(d), n, 1, failAt, k)
    IN  IF failAt > NumCreateSteps
        THEN ResizeFencesAfterRecreate(built)
        ELSE built

----------------------------------------------------------------------------
(* Decisions taken by App::render *)

\* self.data.command_completion_fences[self.frame]
SlotFence(d, f) == d.command_completion_fences[f + 1]

\* the semaphore handed to acquire_next_image_khr (app.rs:179-194)
AcquireSemaphore(d, f) == d.image_available_semaphores[f + 1]

\* wait_semaphores of the submit (app.rs:223, 234)
SubmitWaitSemaphore(d, f) == d.image_available_semaphores[f + 1]

\* signal_semaphores of the submit (app.rs:229, 241)
SubmitSignalSemaphore(d, f) == d.render_finished_semaphores[f + 1]

\* Variant: the present waits on the slot's image-available semaphore
PresentWaitSemaphore_imageAvailable(d, f) == d.image_available_semaphores[f + 1]

\* wait_semaphores of the present (app.rs:265)
PresentWaitSemaphore(d, f) == d.render_finished_semaphores[f + 1]

\* command_buffers of the submit: self.data.command_buffers[image_index]
\* (app.rs:228)
SubmitCommandBuffer(i) == i

\* self.update_uniform_buffer(image_index) maps
\* uniform_buffers_memory[image_index] (app.rs:221, 338)
UniformBufferIndex(i) == i

\* image_indices of the present: [image_index] (app.rs:260)
PresentImageIndex(i) == i

\* Variant: no arm for OUT_OF_DATE_KHR, the frame goes on
AcquireOutcome_outOfDateIgnored(r) ==
    CASE r = "ERROR" -> "error"
      [] OTHER       -> "image"

\* Variant: every Err(e) takes the recreation arm
AcquireOutcome_errorRecreates(r) ==
    CASE r \in {"OUT_OF_DATE", "ERROR"} -> "recreate"
      [] OTHER                          -> "image"

\* Variant: a suboptimal acquire takes the recreation arm
AcquireOutcome_suboptimalRecreates(r) ==
    CASE r \in {"OUT_OF_DATE", "SUBOPTIMAL"} -> "recreate"
      [] r = "ERROR"                         -> "error"
      [] OTHER                               -> "image"

\* elwt.exiting(): elwt.exit() has been called (main.rs:52)
Exiting(p) == p = "closed"

\* Variant: RedrawRequested is handled whether or not the loop is exiting
RenderAllowed_always(p) == TRUE

\* WindowEvent::RedrawRequested if !elwt.exiting() (main.rs:50)
RenderAllowed(p) == ~Exiting(p)

\* match result { Ok(..) => .., Err(OUT_OF_DATE_KHR) => .., Err(e) => .. }
AcquireOutcome(r) ==
    CASE r = "OUT_OF_DATE" -> "recreate"
      [] r = "ERROR"       -> "error"
      [] OTHER             -> "image"

\* Variant: the last-use fence of the image is never waited for
ImageFenceWaitNeeded_never(d, i) == FALSE

\* if !self.data.image_usage_fences[image_index].is_null()
ImageFenceWaitNeeded(d, i) == d.image_usage_fences[i + 1] # NullFence

\* Variant: the image's last-use fence is not recorded
RecordImageUse_none(d, i, f) == d

\* self.data.image_usage_fences[image_index] =
\*     self.data.command_completion_fences[self.frame]  (app.rs:218-219)
RecordImageUse(d, i, f) ==
    [d EXCEPT !.image_usage_fences[i + 1] = d.command_completion_fences[f + 1]]

\* the branch after queue_present_khr (app.rs:271-279)
PresentOutcome(rs, r) ==
    LET changed == r = "SUBOPTIMAL" \/ r = "OUT_OF_DATE"
    IN  IF rs \/ changed THEN "recreate"
        ELSE IF r = "ERROR" THEN "error"
        ELSE "advance"

\* Variant: the counter is not reduced modulo MAX_FRAMES_IN_FLIGHT
NextFrame_noWrap(f) == f + 1

\* self.frame = (self.frame + 1) % MAX_FRAMES_IN_FLIGHT
NextFrame(f) == (f + 1) % MAX_FRAMES_IN_FLIGHT

----------------------------------------------------------------------------
(* Device side: one record per frame, from its acquire until its submission *)
(* has executed and its present request has consumed its semaphore.         *)

\* acquire_next_image_khr returned an index; the semaphore is signaled later
AcquiredFrame(d, f, i) ==
    [ slot    |-> f,
      img     |-> i,
      acqSem  |-> AcquireSemaphore(d, f),
      acq     |-> FALSE,        \* the acquire has signaled acqSem
      st      |-> "acquired",   \* acquired, queued, done
      fence   |-> NullFence,
      waitSem |-> 0,
      sigSem  |-> 0,
      pres    |-> "none",       \* none, queued, started
      presSem |-> 0,
      cmd     |-> -1,           \* index of the command buffer submitted
      ubo     |-> -1,           \* index of the uniform buffer memory written
      presImg |-> -1 ]          \* image index handed to queue_present_khr

\* queue_submit of the frame's command buffer followed by queue_present_khr.
\* The semaphore wait of a present request is enqueued whatever the call
\* returns (as for OUT_OF_DATE_KHR and SURFACE_LOST_KHR).
SubmittedFrame(r, d, f, presented) ==
    [r EXCEPT !.st      = "queued",
              !.fence   = SlotFence(d, f),
              !.waitSem = SubmitWaitSemaphore(d, f),
              !.sigSem  = SubmitSignalSemaphore(d, f),
              !.pres    = IF presented THEN "queued" ELSE "none",
              !.presSem = PresentWaitSemaphore(d, f),
              !.cmd     = SubmitCommandBuffer(r.img),
              !.ubo     = UniformBufferIndex(r.img),
              !.presImg = PresentImageIndex(r.img)]

RemoveAt(s, k) == SubSeq(s, 1, k - 1) \o SubSeq(s, k + 1, Len(s))

Finished(r) == r.st = "done" /\ r.pres # "queued"

\* Replace gpu[k] by r, dropping it once nothing of it is outstanding
Settle(s, k, r) == IF Finished(r) THEN RemoveAt(s, k) ELSE [s EXCEPT ![k] = r]

Append2(s, a, b) == Append(Append(s, a), b)

Entry(op, res) == [op |-> op, res |-> res]

HasOp(l, op) == \E k \in 1..Len(l) : l[k].op = op

HasEntry(l, op, res) == \E k \in 1..Len(l) : l[k] = Entry(op, res)

\* The device state the steps below work on
Device(q, sem, fen) == [q |-> q, sem |-> sem, fen |-> fen]

\* The presentation engine signals the semaphore of an acquire once every
\* earlier present request for that image has been carried out.
CanAcquireSignal(g, k) ==
    /\ ~g.q[k].acq
    /\ \A j \in 1..(k - 1) : g.q[j].img = g.q[k].img => g.q[j].pres # "queued"

AfterAcquireSignal(g, k) ==
    [g EXCEPT !.q[k].acq = TRUE, !.sem[g.q[k].acqSem] = TRUE]

\* A submission executes: it passes its semaphore wait at
\* COLOR_ATTACHMENT_OUTPUT, then signals signal_semaphores and its fence.
\* Signal operations of one queue happen in submission order.
CanSubmissionExecute(g, k) ==
    /\ g.q[k].st = "queued"
    /\ \A j \in 1..(k - 1) : g.q[j].st # "queued"
    /\ g.sem[g.q[k].waitSem]

AfterSubmissionExecute(g, k) ==
    [ q   |-> Settle(g.q, k, [g.q[k] EXCEPT !.st = "done"]),
      sem |-> [g.sem EXCEPT ![g.q[k].waitSem] = FALSE, ![g.q[k].sigSem] = TRUE],
      fen |-> IF g.q[k].fence # NullFence
              THEN [g.fen EXCEPT ![g.q[k].fence] = TRUE]
              ELSE g.fen ]

\* The present request passes its semaphore wait; requests of one queue are
\* carried out in the order they were issued.
CanPresentStart(g, k) ==
    /\ g.q[k].pres = "queued"
    /\ \A j \in 1..(k - 1) : g.q[j].pres # "queued"
    /\ g.sem[g.q[k].presSem]

AfterPresentStart(g, k) ==
    [g EXCEPT !.q = Settle(g.q, k, [g.q[k] EXCEPT !.pres = "started"]),
              !.sem[g.q[k].presSem] = FALSE]

\* Variant: device_wait_idle returns whatever the device is doing
DeviceIdle_noWait(g) == TRUE

\* vkDeviceWaitIdle returns: no queue operation is outstanding
DeviceIdle(g) == g.q = << >>

AcquireSignal(k) ==
    /\ pc # "stopped"
    /\ k \in 1..Len(gpu)
    /\ CanAcquireSignal(Device(gpu, semSignaled, fenceSignaled), k)
    /\ LET h == AfterAcquireSignal(Device(gpu, semSignaled, fenceSignaled), k)
       IN  gpu' = h.q /\ semSignaled' = h.sem /\ fenceSignaled' = h.fen
    /\ UNCHANGED <<data, frame, resized, pc, image_index, ret, log>>
    /\ UNCHANGED calls
    /\ UNCHANGED resizeEvent

SubmissionExecute(k) ==
    /\ pc # "stopped"
    /\ k \in 1..Len(gpu)
    /\ CanSubmissionExecute(Device(gpu, semSignaled, fenceSignaled), k)
    /\ LET h == AfterSubmissionExecute(Device(gpu, semSignaled, fenceSignaled), k)
       IN  gpu' = h.q /\ semSignaled' = h.sem /\ fenceSignaled' = h.fen
    /\ UNCHANGED <<data, frame, resized, pc, image_index, ret, log>>
    /\ UNCHANGED calls
    /\ UNCHANGED resizeEvent

PresentStart(k) ==
    /\ pc # "stopped"
    /\ k \in 1..Len(gpu)
    /\ CanPresentStart(Device(gpu, semSignaled, fenceSignaled), k)
    /\ LET h == AfterPresentStart(Device(gpu, semSignaled, fenceSignaled), k)
       IN  gpu' = h.q /\ semSignaled' = h.sem /\ fenceSignaled' = h.fen
    /\ UNCHANGED <<data, frame, resized, pc, image_index, ret, log>>
    /\ UNCHANGED calls
    /\ UNCHANGED resizeEvent

----------------------------------------------------------------------------
(* Control thread.  pc = "idle": between two render calls, or in render at  *)
(* the first wait_for_fences (render reads no state before it returns);     *)
(* pc = "wait_image": in render at the second wait_for_fences;              *)
(* pc = "recreate_after_acquire", "recreate_after_present": in              *)
(* recreate_swapchain at device_wait_idle, called from app.rs:200 / 276;     *)
(* pc = "closing": in the CloseRequested handler at device_wait_idle;       *)
(* pc = "closed": App::destroy has run, the event loop is exiting.          *)
(* log holds the device calls of the last render call, in order.            *)
(* image_index is a local of render, 0 outside pc = "wait_image".           *)

AcquireResults(n) ==
    { [code |-> c, index |-> i] : c \in {"SUCCESS", "SUBOPTIMAL"}, i \in 0..(n - 1) }
    \cup { [code |-> c, index |-> 0] : c \in {"OUT_OF_DATE", "ERROR"} }

PresentResults == {"SUCCESS", "SUBOPTIMAL", "OUT_OF_DATE", "ERROR"}

\* Calls of the second half of App::render that can return an error
TailFailures == {"none", "update_uniform_buffer", "reset_fences", "queue_submit"}

\* Variant: the fence is reset before the uniform data is written
TailCalls_resetFirst ==
    << "reset_fences", "update_uniform_buffer", "queue_submit" >>

\* The fallible calls of App::render between the image fence wait and the
\* present, in program order (app.rs:221, 246, 250)
TailCalls ==
    << "update_uniform_buffer", "reset_fences", "queue_submit" >>

\* l followed by the calls of TailCalls up to and including the one that
\* fails (`?` returns at the first error), all of them when none fails
TailLog(l, fail) ==
    LET n == Len(TailCalls)
        m == IF \E k \in 1..n : TailCalls[k] = fail
             THEN CHOOSE k \in 1..n : TailCalls[k] = fail
             ELSE n
    IN  l \o [k \in 1..m |->
                [op  |-> TailCalls[k],
                 res |-> IF TailCalls[k] = fail THEN "ERROR" ELSE "SUCCESS"]]

\* l followed by the calls of TailCalls up to and including `last`, all of
\* which returned Ok
TailLogDone(l, last) ==
    LET m == CHOOSE k \in 1..Len(TailCalls) : TailCalls[k] = last
    IN  l \o [k \in 1..m |-> [op |-> TailCalls[k], res |-> "SUCCESS"]]

\* Result<..> as the match at app.rs:198-202 sees it
AcquireLogged(code) == IF code \in {"SUCCESS", "SUBOPTIMAL"} THEN "Ok" ELSE code

\* App::render returned an error or panicked: main unwraps the result, the
\* process ends and takes the device with it.  how is "Err" or "panic".
Stop(how, l) ==
    /\ pc' = "stopped"
    /\ ret' = how
    /\ log' = l
    /\ gpu' = << >>
    /\ semSignaled' = [s \in SemaphoreHandles |-> FALSE]

\* self.recreate_swapchain(window) called by App::render, from
\* device_wait_idle on, and what render does with its result.  advance: the
\* call at app.rs:276, after which self.frame is advanced; otherwise the call
\* at app.rs:200.  failAt = 0: device_wait_idle returns an error and nothing
\* is destroyed; failAt in 1..NumCreateSteps: that create step fails, at
\* point k of FailPoints.
RecreateAndReturn(d, l, advance) ==
    \E n \in ImageCounts, failAt \in 0..(NumCreateSteps + 1),
       k \in 0..(MaxImages - 1) :
         /\ k \in FailPoints(failAt, n)
         /\ CASE failAt = 0 ->
                /\ data' = d
                /\ Stop("Err", Append(l, Entry("device_wait_idle", "ERROR")))
                /\ UNCHANGED frame
              [] failAt \in 1..NumCreateSteps ->
                /\ data' = recreate_swapchain(d, n, failAt, k)
                /\ Stop("Err", Append2(l, Entry("device_wait_idle", "SUCCESS"),
                                          Entry("recreate_swapchain", "ERROR")))
                /\ UNCHANGED frame
              [] failAt > NumCreateSteps ->
                /\ data' = recreate_swapchain(d, n, failAt, k)
                /\ pc' = "idle"
                /\ ret' = "Ok"
                /\ log' = Append2(l, Entry("device_wait_idle", "SUCCESS"),
                                     Entry("recreate_swapchain", "SUCCESS"))
                /\ frame' = IF advance THEN NextFrame(frame) ELSE frame
                /\ UNCHANGED <<gpu, semSignaled>>

\* One more App::render call has started
CountCall(c) == IF c <= MAX_FRAMES_IN_FLIGHT THEN c + 1 ELSE c

\* App::render is entered (RedrawRequested) and indexes
\* command_completion_fences out of bounds (app.rs:174).
RenderPanics ==
    /\ pc \in {"idle", "closed"}
    /\ RenderAllowed(pc)
    /\ frame >= Len(data.command_completion_fences)
    /\ Stop("panic", << >>)
    /\ UNCHANGED <<data, frame, resized, image_index, fenceSignaled>>
    /\ calls' = CountCall(calls)
    /\ resizeEvent' = FALSE

\* wait_for_fences on the slot's fence returns an error (app.rs:174-176)
RenderWaitFails ==
    /\ pc \in {"idle", "closed"}
    /\ RenderAllowed(pc)
    /\ frame < Len(data.command_completion_fences)
    /\ Stop("Err", << Entry("wait_for_fences", "ERROR") >>)
    /\ UNCHANGED <<data, frame, resized, image_index, fenceSignaled>>
    /\ calls' = CountCall(calls)
    /\ resizeEvent' = FALSE

\* App::render from its entry: wait_for_fences on the slot's fence returns,
\* then acquire_next_image_khr and the match on its result (app.rs:174-202).
\* Waiting on a null handle is undefined: the call either returns at once
\* (here) or fails (RenderWaitFails).
RenderAcquire ==
    /\ pc \in {"idle", "closed"}
    /\ RenderAllowed(pc)
    /\ frame < Len(data.command_completion_fences)
    /\ LET f == SlotFence(data, frame)
       IN  f # NullFence => fenceSignaled[f]
    /\ \E r \in AcquireResults(data.swapchain_images) :
         LET out == AcquireOutcome(r.code)
             l1  == << Entry("wait_for_fences", "SUCCESS"),
                       Entry("acquire_next_image_khr", AcquireLogged(r.code)) >>
         IN  CASE out = "recreate" ->
                    /\ pc' = "recreate_after_acquire"
                    /\ ret' = "running"
                    /\ log' = l1
                    /\ UNCHANGED <<data, frame, image_index, fenceSignaled,
                                   semSignaled, gpu>>
               [] out = "error" ->
                    /\ Stop("Err", l1)
                    /\ UNCHANGED <<data, frame, image_index, fenceSignaled>>
               [] OTHER ->
                    /\ Len(gpu) < MaxPending
                    /\ IF r.index < Len(data.image_usage_fences)
                       THEN /\ pc' = "wait_image"
                            /\ ret' = "running"
                            /\ log' = l1
                            /\ image_index' = r.index
                            /\ gpu' = Append(gpu, AcquiredFrame(data, frame, r.index))
                            /\ UNCHANGED semSignaled
                       ELSE Stop("panic", l1) /\ UNCHANGED image_index
                    /\ UNCHANGED <<data, frame, fenceSignaled>>
    /\ UNCHANGED resized
    /\ calls' = CountCall(calls)
    /\ resizeEvent' = FALSE

\* wait_for_fences on the image's last-use fence returns an error (app.rs:209-213)
RenderImageWaitFails ==
    /\ pc = "wait_image"
    /\ ImageFenceWaitNeeded(data, image_index)
    /\ Stop("Err", Append(log, Entry("wait_image_fence", "ERROR")))
    /\ image_index' = 0
    /\ UNCHANGED <<data, frame, resized, fenceSignaled>>
    /\ UNCHANGED calls
    /\ UNCHANGED resizeEvent

\* The rest of App::render once the image's last-use fence (if any) is
\* signaled (app.rs:206-284).  wait_for_fences is called only for a non-null
\* handle.  update_uniform_buffer indexes uniform_buffers_memory before it
\* calls map_memory (app.rs:338); command_buffers is indexed after it has
\* returned (app.rs:228).
RenderSubmitPresent ==
    /\ pc = "wait_image"
    /\ ImageFenceWaitNeeded(data, image_index)
          => fenceSignaled[data.image_usage_fences[image_index + 1]]
    /\ \E fail \in TailFailures, pr \in PresentResults :
         LET i    == image_index
             f    == SlotFence(data, frame)
             l0   == IF ImageFenceWaitNeeded(data, i)
                     THEN Append(log, Entry("wait_image_fence", "SUCCESS"))
                     ELSE log
             d1   == RecordImageUse(data, i, frame)
             oobU == i >= d1.uniform_buffers_memory
             oobC == i >= d1.command_buffers
             mapF == fail = "update_uniform_buffer"
             lt   == TailLog(l0, fail)
             lp   == TailLogDone(l0, "update_uniform_buffer")
             fs(l) == IF HasEntry(l, "reset_fences", "SUCCESS") /\ f # NullFence
                      THEN [fenceSignaled EXCEPT ![f] = FALSE]
                      ELSE fenceSignaled
             fsT  == fs(lt)
             l4   == Append(lt, Entry("queue_present_khr", pr))
             out  == PresentOutcome(resized, pr)
             k    == Len(gpu)
             sub  == [gpu EXCEPT ![k] = SubmittedFrame(gpu[k], d1, frame, TRUE)]
         IN  /\ fail # "none" => pr = "SUCCESS"
             /\ image_index' = 0
             /\ CASE oobU ->
                       /\ data' = d1
                       /\ Stop("panic", l0)
                       /\ UNCHANGED <<frame, resized, fenceSignaled>>
                  [] ~oobU /\ mapF ->
                       /\ data' = d1
                       /\ Stop("Err", lt)
                       /\ fenceSignaled' = fsT
                       /\ UNCHANGED <<frame, resized>>
                  [] ~oobU /\ ~mapF /\ oobC ->
                       /\ data' = d1
                       /\ Stop("panic", lp)
                       /\ fenceSignaled' = fs(lp)
                       /\ UNCHANGED <<frame, resized>>
                  [] ~oobU /\ ~mapF /\ ~oobC /\ fail # "none" ->
                       /\ data' = d1
                       /\ Stop("Err", lt)
                       /\ fenceSignaled' = fsT
                       /\ UNCHANGED <<frame, resized>>
                  [] ~oobU /\ ~oobC /\ fail = "none" /\ out = "recreate" ->
                       /\ data' = d1
                       /\ fenceSignaled' = fsT
                       /\ gpu' = sub
                       /\ resized' = FALSE
                       /\ pc' = "recreate_after_present"
                       /\ ret' = "running"
                       /\ log' = l4
                       /\ UNCHANGED <<frame, semSignaled>>
                  [] ~oobU /\ ~oobC /\ fail = "none" /\ out = "error" ->
                       /\ data' = d1
                       /\ fenceSignaled' = fsT
                       /\ Stop("Err", l4)
                       /\ UNCHANGED <<frame, resized>>
                  [] ~oobU /\ ~oobC /\ fail = "none" /\ out = "advance" ->
                       /\ data' = d1
                       /\ fenceSignaled' = fsT
                       /\ gpu' = sub
                       /\ frame' = NextFrame(frame)
                       /\ pc' = "idle" /\ ret' = "Ok"
                       /\ log' = l4
                       /\ UNCHANGED <<resized, semSignaled>>
    /\ UNCHANGED calls
    /\ UNCHANGED resizeEvent

\* App::recreate_swapchain called from render, blocked in device_wait_idle
\* (app.rs:87), and the rest of render after it returns.
RecreateSwapchain ==
    /\ pc \in {"recreate_after_acquire", "recreate_after_present"}
    /\ DeviceIdle(Device(gpu, semSignaled, fenceSignaled))
    /\ RecreateAndReturn(data, log, pc = "recreate_after_present")
    /\ UNCHANGED <<resized, image_index, fenceSignaled>>
    /\ UNCHANGED calls
    /\ UNCHANGED resizeEvent

\* The windowing layer flags a resize between two render calls (App.resized).
WindowResized ==
    /\ pc = "idle"
    /\ ~resized
    /\ resized' = TRUE
    /\ UNCHANGED <<data, frame, pc, image_index, ret, log, fenceSignaled, semSignaled, gpu>>
    /\ UNCHANGED calls
    /\ UNCHANGED resizeEvent

\* main's match on a window event, for the events that reach no App method:
\* every event other than RedrawRequested and CloseRequested, WindowEvent::Resized
\* among them, takes the arm `_ => ()` (main.rs:56) and changes nothing in App.
IgnoredEvent(r) == r

\* A WindowEvent::Resized is delivered between two render calls
WindowEventResized ==
    /\ pc = "idle"
    /\ ~resizeEvent
    /\ resizeEvent' = TRUE
    /\ resized' = IgnoredEvent(resized)
    /\ UNCHANGED <<data, frame, pc, image_index, ret, log,
                   fenceSignaled, semSignaled, gpu, calls>>

\* WindowEvent::CloseRequested: elwt.exit(), then the handler is in
\* device_wait_idle (main.rs:51-53).  The arm has no exiting() guard: an
\* event delivered while the loop is exiting runs the handler again.
CloseRequested ==
    /\ pc \in {"idle", "closed"}
    /\ pc' = "closing"
    /\ UNCHANGED <<data, frame, resized, image_index, ret, log,
                   fenceSignaled, semSignaled, gpu>>
    /\ UNCHANGED calls
    /\ UNCHANGED resizeEvent

\* device_wait_idle().unwrap() returns and App::destroy runs (main.rs:53-54);
\* an error makes unwrap panic before anything is destroyed.  On a device
\* that was already destroyed the call is undefined: it returns or fails.
CloseDestroy ==
    /\ pc = "closing"
    /\ DeviceIdle(Device(gpu, semSignaled, fenceSignaled))
    /\ \E ok \in BOOLEAN, validation \in BOOLEAN :
         IF ok
         THEN /\ data' = App_destroy(data)
              /\ pc' = "closed"
              /\ log' = << Entry("device_wait_idle", "SUCCESS") >>
                            \o App_destroy_calls(data, validation)
              /\ UNCHANGED <<ret, gpu, semSignaled>>
         ELSE /\ Stop("panic", << Entry("device_wait_idle", "ERROR") >>)
              /\ UNCHANGED data
    /\ UNCHANGED <<frame, resized, image_index, fenceSignaled>>
    /\ UNCHANGED calls
    /\ UNCHANGED resizeEvent

----------------------------------------------------------------------------

Init ==
    /\ \E n \in ImageCounts : data = App_create(n)
    /\ frame = 0
    /\ resized = FALSE
    /\ pc = "idle"
    /\ image_index = 0
    /\ ret = "none"
    /\ log = << >>
    /\ fenceSignaled = [f \in FenceHandles |-> FenceCreatedSignaled]
    /\ semSignaled = [s \in SemaphoreHandles |-> FALSE]
    /\ gpu = << >>
    /\ resizeEvent = FALSE
    /\ calls = 0

Next ==
    \/ RenderPanics
    \/ RenderWaitFails
    \/ RenderAcquire
    \/ RenderImageWaitFails
    \/ RenderSubmitPresent
    \/ RecreateSwapchain
    \/ WindowResized
    \/ WindowEventResized
    \/ CloseRequested
    \/ CloseDestroy
    \/ \E k \in 1..MaxPending : AcquireSignal(k)
    \/ \E k \in 1..MaxPending : SubmissionExecute(k)
    \/ \E k \in 1..MaxPending : PresentStart(k)

Spec == Init /\ [][Next]_vars

----------------------------------------------------------------------------
(* Properties *)

\* The step is the part of App::render that starts at app.rs:206
TailStep == pc = "wait_image" /\ pc' # "wait_image"

\* The step is the part of App::render that ends with the match at app.rs:198
AcquireStep == pc = "idle" /\ log' # log

\* The step is recreate_swapchain from the return of device_wait_idle on
RecreateReturns == pc \in {"recreate_after_acquire", "recreate_after_present"}
                      /\ pc' # pc

Last(l) == l[Len(l)]

\* The step is the CloseRequested handler from the return of device_wait_idle on
CloseReturns == pc = "closing" /\ pc' # pc

\* C1: whenever render resets the slot's fence and submits for the slot, that
\* fence is a signaled fence and every earlier submission made with the slot
\* has completed.
SlotFenceSignaledAtReset ==
    [][ (TailStep /\ HasEntry(log', "reset_fences", "SUCCESS")) =>
           LET f == SlotFence(data, frame)
           IN  /\ f # NullFence
               /\ fenceSignaled[f]
               /\ \A k \in 1..(Len(gpu) - 1) :
                     gpu[k].slot = frame => gpu[k].st = "done" ]_vars

\* C2: when render overwrites image_usage_fences[i] and goes on to submit the
\* command buffer of image i, the old entry is null or a signaled fence, and
\* in the second case no earlier submission for image i is still queued.
ImageFenceWaitedBeforeReuse ==
    [][ (TailStep /\ ~HasEntry(log', "wait_image_fence", "ERROR")) =>
           LET old == data.image_usage_fences[image_index + 1]
           IN  /\ old = NullFence => ~HasOp(log', "wait_image_fence")
               /\ old # NullFence =>
                     /\ fenceSignaled[old]
                     /\ HasEntry(log', "wait_image_fence", "SUCCESS")
                     /\ \A k \in 1..(Len(gpu) - 1) :
                           gpu[k].img = image_index => gpu[k].st = "done" ]_vars

\* C2 witness: render is blocked on the non-null last-use fence of the image
\* it acquired while an earlier submission for that image is still queued.
ImageFenceWaitBlocks ==
    /\ pc = "wait_image"
    /\ ImageFenceWaitNeeded(data, image_index)
    /\ ~fenceSignaled[data.image_usage_fences[image_index + 1]]
    /\ \E k \in 1..(Len(gpu) - 1) :
          gpu[k].img = image_index /\ gpu[k].st = "queued"

\* C3: an acquire that returns OUT_OF_DATE always leads into
\* recreate_swapchain; from there until render returns no fence is reset,
\* nothing is submitted or presented and self.frame keeps its value; render
\* returns Ok only after the whole recreation has run on an idle device.
OutOfDateAcquireAbortsFrame ==
    [][ /\ (AcquireStep /\ HasEntry(log', "acquire_next_image_khr", "OUT_OF_DATE"))
              => pc' = "recreate_after_acquire"
        /\ pc' = "recreate_after_acquire" =>
              /\ frame' = frame
              /\ data' = data
              /\ Len(gpu') <= Len(gpu)
              /\ \A f \in FenceHandles : fenceSignaled[f] => fenceSignaled'[f]
              /\ ~HasOp(log', "reset_fences")
              /\ ~HasOp(log', "queue_submit")
              /\ ~HasOp(log', "queue_present_khr")
        /\ (pc = "recreate_after_acquire" /\ pc' # pc) =>
              /\ frame' = frame
              /\ fenceSignaled' = fenceSignaled
              /\ ~HasOp(log', "reset_fences")
              /\ ~HasOp(log', "queue_submit")
              /\ ~HasOp(log', "queue_present_khr")
              /\ \/ pc' = "stopped" /\ ret' = "Err"
                 \/ /\ pc' = "idle" /\ ret' = "Ok"
                    /\ gpu = << >>
                    /\ Last(log') = Entry("recreate_swapchain", "SUCCESS")
                    /\ data'.swapchain = "live" ]_vars

\* C3 witness: render has returned Ok from an OUT_OF_DATE acquire on slot 1
\* after a whole recreation.
OutOfDateAcquireRecreated ==
    /\ pc = "idle" /\ ret = "Ok" /\ frame = 1
    /\ HasEntry(log, "acquire_next_image_khr", "OUT_OF_DATE")
    /\ Last(log) = Entry("recreate_swapchain", "SUCCESS")

\* C4: a submission executes only after the acquire of its own frame has
\* signaled the semaphore it waits on, and the present of a frame starts only
\* after the submission of that same frame has signaled the semaphore the
\* present waits on.
SemaphoresOrderAcquireSubmitPresent ==
    [][ \A k \in 1..Len(gpu) :
          /\ SubmissionExecute(k) =>
                gpu[k].acq /\ gpu[k].waitSem = gpu[k].acqSem
          /\ PresentStart(k) =>
                gpu[k].st = "done" /\ gpu[k].presSem = gpu[k].sigSem ]_vars

\* C4 witness: the submission of a frame has executed after its acquire
\* signaled, the render-finished semaphore is signaled and the present of
\* the frame can start.
SubmissionDonePresentReady ==
    \E k \in 1..Len(gpu) :
       /\ gpu[k].acq /\ gpu[k].st = "done" /\ gpu[k].pres = "queued"
       /\ semSignaled[gpu[k].presSem]
       /\ \A j \in 1..(k - 1) : gpu[j].pres # "queued"

\* C5: recreate_swapchain is entered only from render, and in a render call
\* that acquired an image only after queue_present_khr has returned; the
\* resize flag is looked at only there.
RecreationOnlyAfterPresent ==
    [][ /\ (/\ ~CloseReturns
            /\ \/ log' # log /\ HasOp(log', "device_wait_idle")
               \/ data'.swapchain # data.swapchain)
              => RecreateReturns
        /\ (pc' \in {"recreate_after_acquire", "recreate_after_present"} /\ pc' # pc)
              => \/ Last(log').op = "queue_present_khr"
                 \/ /\ Last(log') = Entry("acquire_next_image_khr", "OUT_OF_DATE")
                    /\ Len(gpu') = Len(gpu)
        /\ resized' # resized =>
              \/ pc = "idle" /\ pc' = "idle"
              \/ Last(log').op = "queue_present_khr" ]_vars

\* C5 witness: a frame whose present returned SUCCESS was followed, in the
\* same render call, by the recreation the resize flag asked for.
ResizeRecreatedAfterPresent ==
    /\ pc = "idle" /\ ret = "Ok" /\ ~resized
    /\ HasEntry(log, "queue_submit", "SUCCESS")
    /\ HasEntry(log, "queue_present_khr", "SUCCESS")
    /\ Last(log) = Entry("recreate_swapchain", "SUCCESS")

\* C6: after queue_present_khr returns, SUBOPTIMAL, OUT_OF_DATE or a set
\* resize flag lead to recreation, and any other present failure makes render
\* return the error, whatever the resize flag is.
PresentFailureIsFatal ==
    [][ (TailStep /\ HasOp(log', "queue_present_khr")) =>
           LET r == Last(log').res
           IN  /\ (r \in {"SUBOPTIMAL", "OUT_OF_DATE"} \/ (resized /\ r = "SUCCESS"))
                     => pc' = "recreate_after_present"
               /\ r = "ERROR" => pc' = "stopped" /\ ret' = "Err" ]_vars

\* C7: an acquire that fails with an error other than OUT_OF_DATE makes render
\* return the error; nothing is recreated, no fence is reset, nothing is
\* submitted or presented, self.frame and AppData keep their values.
AcquireErrorReturnsUntouched ==
    [][ (AcquireStep /\ HasEntry(log', "acquire_next_image_khr", "ERROR")) =>
           /\ pc' = "stopped" /\ ret' = "Err"
           /\ log' = << Entry("wait_for_fences", "SUCCESS"),
                        Entry("acquire_next_image_khr", "ERROR") >>
           /\ data' = data
           /\ frame' = frame
           /\ fenceSignaled' = fenceSignaled ]_vars

\* C7 witness: render returned the acquire error on slot 1 while an image
\* had a last-use fence.
AcquireErrorReturned ==
    /\ pc = "stopped" /\ ret = "Err" /\ frame = 1
    /\ Last(log) = Entry("acquire_next_image_khr", "ERROR")
    /\ \E i \in 1..Len(data.image_usage_fences) :
          data.image_usage_fences[i] # NullFence

\* C8: when recreate_swapchain has completed, image_usage_fences has one
\* entry per image of the new swapchain and every entry is the null fence.
ImageFencesClearedByRecreation ==
    (pc = "idle" /\ Len(log) > 0 /\ Last(log) = Entry("recreate_swapchain", "SUCCESS")) =>
        /\ Len(data.image_usage_fences) = data.swapchain_images
        /\ \A i \in 1..Len(data.image_usage_fences) :
              data.image_usage_fences[i] = NullFence

\* App::destroy has run on d
Destroyed(d) == \A o \in ScopedObjects : StatusOf(d, o) = "destroyed"

\* C9: between App::create and App::destroy each of the three per-slot
\* vectors holds the MAX_FRAMES_IN_FLIGHT handles create_sync_objects made.
SlotObjectsKept ==
    /\ data.image_available_semaphores = App_create(1).image_available_semaphores
    /\ data.render_finished_semaphores = App_create(1).render_finished_semaphores
    /\ data.command_completion_fences  = App_create(1).command_completion_fences
    /\ Len(data.command_completion_fences) = MAX_FRAMES_IN_FLIGHT
    /\ \A k \in 1..Len(data.command_completion_fences) :
          data.command_completion_fences[k] # NullFence

\* C10: after App::create and after every completed recreate_swapchain the
\* numbers of framebuffers, command buffers, uniform buffers and uniform
\* buffer memories equal the image count of the swapchain in use.
PerImageCountsMatch ==
    (pc \notin {"stopped", "closed"} /\ ~Destroyed(data)) =>
        /\ data.swapchain = "live"
        /\ data.framebuffers           = data.swapchain_images
        /\ data.command_buffers        = data.swapchain_images
        /\ data.uniform_buffers        = data.swapchain_images
        /\ data.uniform_buffers_memory = data.swapchain_images

\* C10 witness: recreate_swapchain has completed and replaced a swapchain of
\* three images by one of two.
RecreatedWithFewerImages ==
    /\ pc = "idle" /\ ret = "Ok"
    /\ Len(log) > 0
    /\ Last(log) = Entry("recreate_swapchain", "SUCCESS")
    /\ Len(data.image_usage_fences) = 3
    /\ data.swapchain_images = 2
    /\ data.uniform_buffers = 2
    /\ data.command_buffers = 2

\* C11: recreate_swapchain destroys the swapchain-scoped objects only once
\* device_wait_idle has returned Ok, when no submission and no present is
\* outstanding on the device; when device_wait_idle fails nothing is
\* destroyed.
DestroyOnlyWhenDeviceIdle ==
    [][ /\ (log' # log /\ HasEntry(log', "device_wait_idle", "SUCCESS")) =>
              /\ RecreateReturns \/ CloseReturns
              /\ gpu = << >>
        /\ data'.swapchain # data.swapchain =>
              /\ RecreateReturns \/ CloseReturns
              /\ gpu = << >>
              /\ HasEntry(log', "device_wait_idle", "SUCCESS")
        /\ (log' # log /\ HasEntry(log', "device_wait_idle", "ERROR")) =>
              /\ data' = data
              /\ pc' = "stopped"
              /\ ret' = IF CloseReturns THEN "panic" ELSE "Err" ]_vars

\* C11 witness: a frame was submitted and presented, the present returned
\* OUT_OF_DATE, and the recreation that followed found the device idle with
\* the frame's fence signaled.
RecreatedAfterDeviceDrained ==
    /\ pc = "idle" /\ ret = "Ok"
    /\ HasEntry(log, "queue_submit", "SUCCESS")
    /\ HasEntry(log, "queue_present_khr", "OUT_OF_DATE")
    /\ Last(log) = Entry("recreate_swapchain", "SUCCESS")
    /\ gpu = << >>
    /\ \A f \in FenceHandles : fenceSignaled[f]

\* The order in which C12 lists the swapchain-scoped objects
RebuildOrder ==
    << "swapchain", "swapchain_image_views", "render_pass", "pipeline",
       "depth_image_view", "framebuffers", "uniform_buffers", "descriptor_pool",
       "descriptor_sets", "command_buffers" >>

\* C12: recreate_swapchain rebuilds the swapchain-scoped objects in the order
\* swapchain, image views, render pass, pipeline, depth buffer, framebuffers,
\* uniform buffers, descriptor pool, descriptor sets, command buffers: every
\* object is created from live (already recreated) objects only; when no
\* step fails all of them are rebuilt, and when step s fails the objects
\* before it have been rebuilt, none after it is created (the object of step
\* s itself may be missing, empty or partly built), and render returns the
\* error.
RebuiltInDependencyOrder ==
    [][ (RecreateReturns /\ HasEntry(log', "device_wait_idle", "SUCCESS")) =>
          /\ \A o \in ScopedObjects :
                StatusOf(data', o) \in {"live", "destroyed", "empty"}
          /\ Last(log') \in {Entry("recreate_swapchain", "SUCCESS"),
                             Entry("recreate_swapchain", "ERROR")}
          /\ Last(log') = Entry("recreate_swapchain", "SUCCESS") =>
                \A o \in ScopedObjects : StatusOf(data', o) = "live"
          /\ Last(log') = Entry("recreate_swapchain", "ERROR") =>
                /\ pc' = "stopped" /\ ret' = "Err"
                /\ \E s \in 1..NumCreateSteps :
                      \A j \in 1..NumCreateSteps :
                          /\ j < s => StatusOf(data', RebuildOrder[j]) = "live"
                          /\ j > s => StatusOf(data', RebuildOrder[j]) = "destroyed"
        ]_vars

Occurrences(l, e) == Cardinality({k \in 1..Len(l) : l[k] = e})

\* C13: on CloseRequested, App::destroy runs only after device_wait_idle has
\* returned with no device work outstanding, it releases every GPU object
\* (every swapchain-scoped object, every fence and every semaphore that was
\* created, each once), and no render call runs during or after the teardown.
TeardownAfterDeviceIdleReleasesAll ==
    [][ /\ (CloseReturns /\ pc' = "closed") =>
              /\ gpu = << >>
              /\ log'[1] = Entry("device_wait_idle", "SUCCESS")
              /\ \A o \in ScopedObjects : StatusOf(data', o) = "destroyed"
              /\ \A f \in FenceHandles :
                   Occurrences(log', Entry("destroy_fence", "fence" \o ToString(f))) = 1
              /\ \A x \in SemaphoreHandles :
                   Occurrences(log', Entry("destroy_semaphore",
                                           "semaphore" \o ToString(x))) = 1
        /\ pc \in {"closing", "closed"} =>
              \/ pc' \in {"closing", "closed"}
              \/ pc' = "stopped" /\ log' = << Entry("device_wait_idle", "ERROR") >> ]_vars

\* The step ends an App::render call (it returns or panics)
RenderReturns ==
    /\ pc \in {"idle", "wait_image", "recreate_after_acquire", "recreate_after_present"}
    /\ pc' \in {"idle", "stopped"}
    /\ pc' # pc \/ log' # log

\* C14 as stated: self.frame stays in [0, MAX_FRAMES_IN_FLIGHT), changes only
\* when a render call ends, and every render call that performs queue_submit
\* advances it by one modulo MAX_FRAMES_IN_FLIGHT while a call that does not
\* submit leaves it unchanged.
FrameAdvancesOncePerSubmit ==
    [][ /\ frame' \in 0..(MAX_FRAMES_IN_FLIGHT - 1)
        /\ frame' # frame => RenderReturns
        /\ RenderReturns =>
             frame' = IF HasOp(log', "queue_submit")
                      THEN (frame + 1) % MAX_FRAMES_IN_FLIGHT
                      ELSE frame ]_vars

\* C14 amended: self.frame stays in [0, MAX_FRAMES_IN_FLIGHT), changes only
\* when a render call ends, and is advanced by one modulo
\* MAX_FRAMES_IN_FLIGHT by exactly the render calls that return Ok after a
\* successful queue_submit; a call that returns an error, panics or does not
\* submit leaves it unchanged.
FrameAdvancesOncePerCompletedFrame ==
    [][ /\ frame' \in 0..(MAX_FRAMES_IN_FLIGHT - 1)
        /\ frame' # frame => RenderReturns
        /\ RenderReturns =>
             frame' = IF ret' = "Ok" /\ HasEntry(log', "queue_submit", "SUCCESS")
                      THEN (frame + 1) % MAX_FRAMES_IN_FLIGHT
                      ELSE frame ]_vars

\* C14 witness: a render call that submitted for slot MAX_FRAMES_IN_FLIGHT - 1
\* has returned Ok and the counter has wrapped to 0
FrameCounterWrapped ==
    /\ pc = "idle" /\ ret = "Ok" /\ frame = 0
    /\ HasEntry(log, "queue_submit", "SUCCESS")
    /\ Last(log).op = "queue_present_khr"

\* C15: the MAX_FRAMES_IN_FLIGHT command-completion fences are created
\* signaled and every image_usage_fences entry is created null, and whenever
\* one of the first MAX_FRAMES_IN_FLIGHT render calls after App::create is
\* about to start, the fence it waits for at the top of render is a fence of
\* the slot that is already signaled, so the wait does not block.
FirstFramesDoNotBlock ==
    /\ calls = 0 =>
          /\ Len(data.command_completion_fences) = MAX_FRAMES_IN_FLIGHT
          /\ \A f \in FenceHandles : fenceSignaled[f]
          /\ \A k \in 1..Len(data.image_usage_fences) :
                data.image_usage_fences[k] = NullFence
    /\ (pc = "idle" /\ calls < MAX_FRAMES_IN_FLIGHT) =>
          /\ frame < Len(data.command_completion_fences)
          /\ SlotFence(data, frame) # NullFence
          /\ fenceSignaled[SlotFence(data, frame)]

----------------------------------------------------------------------------
(* Scenario: MAX_FRAMES_IN_FLIGHT = 3 slots over a swapchain of 2 images    *)
(* that are acquired alternately; every call succeeds and the window is not *)
(* resized.                                                                 *)

\* Image count of the scenario
ScenarioImages == 2

ScenarioInit == Init /\ data.swapchain_images = ScenarioImages

\* The image the presentation engine hands out next: image 0 first, then the
\* image that the previous frame (slot self.frame - 1) did not use
ScenarioNextImage(d, f, c) ==
    IF c = 0 THEN 0
    ELSE CHOOSE i \in 0..(ScenarioImages - 1) :
            d.image_usage_fences[i + 1] #
                SlotFence(d, (f + MAX_FRAMES_IN_FLIGHT - 1) % MAX_FRAMES_IN_FLIGHT)

\* App::render up to the image fence test; the presentation engine hands out
\* image 0, 1, 0, ...
ScenarioAcquire ==
    /\ RenderAcquire
    /\ pc' = "wait_image"
    /\ image_index' = ScenarioNextImage(data, frame, calls)

\* The rest of App::render; queue_present_khr returns SUCCESS
ScenarioSubmitPresent ==
    /\ RenderSubmitPresent
    /\ pc' = "idle"
    /\ Last(log') = Entry("queue_present_khr", "SUCCESS")

ScenarioNext ==
    \/ ScenarioAcquire
    \/ ScenarioSubmitPresent
    \/ \E k \in 1..MaxPending : AcquireSignal(k)
    \/ \E k \in 1..MaxPending : SubmissionExecute(k)
    \/ \E k \in 1..MaxPending : PresentStart(k)

SpecScenario == ScenarioInit /\ [][ScenarioNext]_vars

\* C16: with 3 slots and 2 images acquired alternately, frame 0 (image 0) and
\* frame 1 (image 1) find a null last-use fence for their image and do not
\* wait; frame 2 (slot 2, image 0) finds slot 0's fence as the last-use fence
\* of image 0 and goes on to submit only once that fence is signaled.
ThirdFrameWaitsForSlotZero ==
    [][ /\ (pc = "wait_image" /\ calls \in {1, 2}) =>
              /\ frame = calls - 1 /\ image_index = calls - 1
              /\ data.image_usage_fences[image_index + 1] = NullFence
              /\ ~ImageFenceWaitNeeded(data, image_index)
        /\ (pc = "wait_image" /\ calls = 3) =>
              /\ frame = 2 /\ image_index = 0
              /\ data.image_usage_fences[1] = data.command_completion_fences[1]
              /\ data.image_usage_fences[1] # NullFence
              /\ ImageFenceWaitNeeded(data, image_index)
        /\ (TailStep /\ calls \in {1, 2}) => ~HasOp(log', "wait_image_fence")
        /\ (TailStep /\ calls = 3) =>
              /\ HasEntry(log', "wait_image_fence", "SUCCESS")
              /\ fenceSignaled[data.command_completion_fences[1]]
              /\ \A j \in 1..Len(gpu) : gpu[j].slot = 0 => gpu[j].st = "done" ]_vars

\* C16 witness: frame 2 has waited for image 0's last-use fence, submitted
\* with slot 2's fence and returned
ThirdFrameSubmitted ==
    /\ pc = "idle" /\ ret = "Ok" /\ calls = 3 /\ frame = 0
    /\ HasEntry(log, "wait_image_fence", "SUCCESS")
    /\ data.image_usage_fences = << 3, 2 >>

\* The handles named by a sequence of device calls, in order
HandlesOf(l) == [k \in 1..Len(l) |-> l[k].res]

Reverse(q) == [k \in 1..Len(q) |-> q[Len(q) + 1 - k]]

\* The handles of l other than h (descriptor sets are freed with their pool)
Without(q, h) == SelectSeq(q, LAMBDA x : x # h)

\* C17: when App::create is followed by App::destroy with no frame rendered,
\* every handle App::create produced is destroyed or freed exactly once,
\* nothing else is destroyed, and the handles are released in the reverse of
\* the order in which they were created.
RoundTripReleasesInReverseOrder ==
    (pc = "closed" /\ calls = 0) =>
        LET validation == HasOp(log, "destroy_debug_utils_messenger_ext")
            created    == Without(HandlesOf(App_create_calls(data, validation)),
                                  "descriptor_sets")
            released   == HandlesOf(Tail(log))
        IN  /\ \A k \in 1..Len(created) :
                 Cardinality({j \in 1..Len(released) : released[j] = created[k]}) = 1
            /\ \A j \in 1..Len(released) :
                 \E k \in 1..Len(created) : created[k] = released[j]
            /\ HasEntry(log, "destroy_descriptor_pool", "descriptor_pool")
            /\ released = Reverse(created)

\* C18: a resize event sets App.resized; a render call that reaches present
\* with the flag set performs exactly one swapchain recreation, and the flag
\* is false when that call returns.
ResizeEventSetsFlagRenderClearsIt ==
    [][ /\ (resizeEvent' /\ ~resizeEvent) => resized'
        /\ (RenderReturns /\ resized /\ HasOp(log', "queue_present_khr")) =>
              /\ Occurrences(log', Entry("recreate_swapchain", "SUCCESS"))
                   + Occurrences(log', Entry("recreate_swapchain", "ERROR"))
                   + Occurrences(log', Entry("device_wait_idle", "ERROR")) = 1
              /\ ~resized' ]_vars

----------------------------------------------------------------------------
(* Swapchain creation: the image count asked of the driver.                 *)
(* vulkan/swapchain.rs is not part of the sources; the rule is the Swapchain *)
(* Manager's contract: image count = min + 1 capped at max (0 = unbounded). *)

\* Variant: the count is not capped at maxImageCount
SwapchainImageCount_uncapped(min, max) == min + 1

\* min_image_count + 1, but no more than a non-zero max_image_count
SwapchainImageCount(min, max) ==
    IF max # 0 /\ min + 1 > max THEN max ELSE min + 1

\* What a surface may report: maxImageCount is 0 (no limit) or >= minImageCount
SurfaceCapabilities ==
    { c \in [min_image_count : 1..MaxMinImageCount,
             max_image_count : 0..MaxMaxImageCount] :
        c.max_image_count = 0 \/ c.max_image_count >= c.min_image_count }

\* create_swapchain has queried the surface's capabilities
ImageCountInit ==
    /\ \E cap \in SurfaceCapabilities :
         log = << [op |-> "get_physical_device_surface_capabilities_khr",
                   res |-> cap] >>
    /\ pc = "create_swapchain"
    /\ data = AppDataDefault
    /\ frame = 0
    /\ resized = FALSE
    /\ image_index = 0
    /\ ret = "none"
    /\ fenceSignaled = << >>
    /\ semSignaled = << >>
    /\ gpu = << >>
    /\ resizeEvent = FALSE
    /\ calls = 0

\* create_swapchain asks the driver for a swapchain with min_image_count set
\* to the chosen count
RequestSwapchain ==
    /\ pc = "create_swapchain"
    /\ pc' = "swapchain_requested"
    /\ log' = Append(log,
                [op  |-> "create_swapchain_khr",
                 res |-> SwapchainImageCount(log[1].res.min_image_count,
                                             log[1].res.max_image_count)])
    /\ UNCHANGED <<data, frame, resized, image_index, ret, fenceSignaled,
                   semSignaled, gpu, resizeEvent, calls>>

ImageCountNext == RequestSwapchain

SpecImageCount == ImageCountInit /\ [][ImageCountNext]_vars

\* C19: the image count requested at swapchain creation is the surface's
\* minimum image count plus one, capped at the surface's maximum image count
\* when that is not 0 (0: no upper bound, the count is min + 1); it is never
\* below the minimum and never above a non-zero maximum.
ImageCountIsMinPlusOneCapped ==
    pc = "swapchain_requested" =>
        LET min   == log[1].res.min_image_count
            max   == log[1].res.max_image_count
            count == log[2].res
        IN  /\ max = 0 => count = min + 1
            /\ max # 0 => count = IF min + 1 <= max THEN min + 1 ELSE max
            /\ count >= min
            /\ max # 0 => count <= max

\* C19 witness: the surface allows no more images than its minimum and the
\* count requested is that maximum
ImageCountCappedAtMax ==
    /\ pc = "swapchain_requested"
    /\ log[1].res.max_image_count = log[1].res.min_image_count
    /\ log[2].res = log[1].res.max_image_count
    /\ log[2].res < log[1].res.min_image_count + 1

OpCount(l, op) == Cardinality({k \in 1..Len(l) : l[k].op = op})

\* l[i].op = a and l[j].op = b imply i < j
OpBefore(l, a, b) ==
    \A i, j \in 1..Len(l) : (l[i].op = a /\ l[j].op = b) => i < j

\* C20: a render call performs at most one acquire, one queue_submit and one
\* queue_present_khr, in that order; it submits only after the acquire
\* returned an image index, presents if and only if queue_submit succeeded,
\* and the present targets the acquired image and waits on the render-finished
\* semaphore of the slot, which is the one the submit signals.
RenderWalksFrameStateMachine ==
    [][ /\ log' # log =>
              /\ OpCount(log', "acquire_next_image_khr") <= 1
              /\ OpCount(log', "queue_submit") <= 1
              /\ OpCount(log', "queue_present_khr") <= 1
              /\ OpBefore(log', "acquire_next_image_khr", "queue_submit")
              /\ OpBefore(log', "queue_submit", "queue_present_khr")
              /\ HasOp(log', "queue_submit") =>
                    HasEntry(log', "acquire_next_image_khr", "Ok")
              /\ HasOp(log', "queue_present_khr") <=>
                    HasEntry(log', "queue_submit", "SUCCESS")
        /\ (pc' # pc /\ pc' = "wait_image") => pc = "idle"
        /\ (pc' # pc /\ pc = "wait_image") =>
              pc' \in {"idle", "recreate_after_present", "stopped"}
        /\ (TailStep /\ HasOp(log', "queue_present_khr") /\ pc' # "stopped") =>
              LET r == gpu'[Len(gpu')]
              IN  /\ r.slot = frame /\ r.img = image_index
                  /\ r.st = "queued" /\ r.pres = "queued"
                  /\ r.cmd = image_index
                  /\ r.presImg = image_index
                  /\ r.sigSem = data.render_finished_semaphores[frame + 1]
                  /\ r.presSem = r.sigSem ]_vars

\* C20 witness: a render call has acquired, submitted and presented and is
\* back at Idle; the device holds its submission and its present request
FrameWalkedToPresented ==
    /\ pc = "idle" /\ ret = "Ok"
    /\ log = << Entry("wait_for_fences", "SUCCESS"),
                Entry("acquire_next_image_khr", "Ok"),
                Entry("update_uniform_buffer", "SUCCESS"),
                Entry("reset_fences", "SUCCESS"),
                Entry("queue_submit", "SUCCESS"),
                Entry("queue_present_khr", "SUCCESS") >>
    /\ Len(gpu) > 0
    /\ gpu[Len(gpu)].pres = "queued"
    /\ gpu[Len(gpu)].presSem = gpu[Len(gpu)].sigSem
    /\ gpu[Len(gpu)].presImg = gpu[Len(gpu)].img

\* C21 as stated: in a render call that submits, the slot's fence is reset
\* first, then the uniform data of the acquired image is updated, then the
\* image's command buffer is submitted with that fence.
FenceResetThenUniformThenSubmit ==
    [][ (TailStep /\ HasOp(log', "queue_submit")) =>
           /\ HasEntry(log', "reset_fences", "SUCCESS")
           /\ HasEntry(log', "update_uniform_buffer", "SUCCESS")
           /\ OpBefore(log', "reset_fences", "update_uniform_buffer")
           /\ OpBefore(log', "update_uniform_buffer", "queue_submit") ]_vars

\* C21 amended: in the Acquired to Submitted transition the uniform data of
\* the acquired image is updated first, then the slot's command-completion
\* fence is reset to unsignaled, then the image's command buffer is submitted
\* with that fence; each step runs only if the one before it succeeded, so a
\* failed uniform update leaves the fence untouched.
UniformThenFenceResetThenSubmit ==
    [][ TailStep =>
           /\ OpCount(log', "update_uniform_buffer") <= 1
           /\ OpCount(log', "reset_fences") <= 1
           /\ OpBefore(log', "update_uniform_buffer", "reset_fences")
           /\ OpBefore(log', "reset_fences", "queue_submit")
           /\ HasOp(log', "reset_fences") =>
                 HasEntry(log', "update_uniform_buffer", "SUCCESS")
           /\ HasOp(log', "queue_submit") =>
                 HasEntry(log', "reset_fences", "SUCCESS")
           /\ ~HasEntry(log', "reset_fences", "SUCCESS") =>
                 fenceSignaled' = fenceSignaled
           /\ HasEntry(log', "reset_fences", "SUCCESS") =>
                 \A h \in FenceHandles :
                    fenceSignaled'[h] =
                        (fenceSignaled[h] /\ h # SlotFence(data, frame))
           /\ (HasEntry(log', "queue_submit", "SUCCESS") /\ pc' # "stopped") =>
                 LET r == gpu'[Len(gpu')]
                 IN  /\ r.ubo = image_index
                     /\ r.cmd = image_index
                     /\ r.fence = SlotFence(data, frame) ]_vars

\* C21 witness: a render call updated the uniform data, reset the fence of
\* slot 1 and submitted with it; the submission is pending and the fence is
\* unsignaled
SubmittedWithResetFence ==
    /\ pc = "idle" /\ ret = "Ok" /\ frame = 2
    /\ HasEntry(log, "update_uniform_buffer", "SUCCESS")
    /\ HasEntry(log, "reset_fences", "SUCCESS")
    /\ HasEntry(log, "queue_submit", "SUCCESS")
    /\ Len(gpu) > 0
    /\ gpu[Len(gpu)].st = "queued"
    /\ gpu[Len(gpu)].fence = SlotFence(data, 1)
    /\ gpu[Len(gpu)].fence # NullFence
    /\ gpu[Len(gpu)].ubo = gpu[Len(gpu)].img
    /\ ~fenceSignaled[gpu[Len(gpu)].fence]

----------------------------------------------------------------------------
(* A swapchain with more images than frame slots, never recreated: every    *)
(* acquire and every present succeeds and the window is not resized.        *)

\* Image count of this run: one more than the number of slots
ManyImages == MAX_FRAMES_IN_FLIGHT + 1

ManyImagesInit ==
    /\ data = App_create(ManyImages)
    /\ frame = 0
    /\ resized = FALSE
    /\ pc = "idle"
    /\ image_index = 0
    /\ ret = "none"
    /\ log = << >>
    /\ fenceSignaled = [f \in FenceHandles |-> FenceCreatedSignaled]
    /\ semSignaled = [s \in SemaphoreHandles |-> FALSE]
    /\ gpu = << >>
    /\ resizeEvent = FALSE
    /\ calls = 0

\* App::render up to the image fence test; acquire_next_image_khr returns an
\* image index
ManyImagesAcquire ==
    /\ RenderAcquire
    /\ pc' = "wait_image"

\* The rest of App::render; queue_present_khr returns SUCCESS
ManyImagesSubmitPresent ==
    /\ RenderSubmitPresent
    /\ pc' = "idle"
    /\ Last(log') = Entry("queue_present_khr", "SUCCESS")

ManyImagesNext ==
    \/ ManyImagesAcquire
    \/ ManyImagesSubmitPresent
    \/ \E k \in 1..MaxPending : AcquireSignal(k)
    \/ \E k \in 1..MaxPending : SubmissionExecute(k)
    \/ \E k \in 1..MaxPending : PresentStart(k)

SpecManyImages == ManyImagesInit /\ [][ManyImagesNext]_vars

\* C22: a submission never signals render_finished[s] while an earlier
\* present request that waits on that semaphore has not consumed it, and
\* image_available[s] is never handed to a new acquire while a submission
\* that waits on it is still queued.
SlotSemaphoresNotReusedWhileInUse ==
    [][ /\ \A k \in 1..Len(gpu) :
              SubmissionExecute(k) =>
                 \A j \in 1..Len(gpu) :
                    (j # k /\ gpu[j].pres = "queued")
                       => gpu[j].presSem # gpu[k].sigSem
        /\ (AcquireStep /\ pc' = "wait_image") =>
              \A j \in 1..Len(gpu) :
                 gpu[j].st # "done"
                    => gpu[j].acqSem # AcquireSemaphore(data, frame) ]_vars

\* h is signaled, or a submission that will signal it is queued on the device
SignaledOrPending(h) ==
    /\ h # NullFence
    /\ \/ fenceSignaled[h]
       \/ \E k \in 1..Len(gpu) : gpu[k].st = "queued" /\ gpu[k].fence = h

\* C23: while the program runs, every fence a render call waits on without a
\* timeout (the fence of the slot at the top of render, and the non-null
\* last-use fence of the acquired image) is signaled or is the fence of a
\* submission that is still pending, and so is every non-null entry kept in
\* image_usage_fences: no wait of render blocks forever.
RenderWaitsOnlyOnLiveFences ==
    /\ (pc = "idle" /\ frame < Len(data.command_completion_fences)) =>
          SignaledOrPending(SlotFence(data, frame))
    /\ (pc = "wait_image" /\ ImageFenceWaitNeeded(data, image_index)) =>
          SignaledOrPending(data.image_usage_fences[image_index + 1])
    /\ pc \in {"idle", "wait_image"} =>
          \A i \in 1..Len(data.image_usage_fences) :
             data.image_usage_fences[i] # NullFence =>
                SignaledOrPending(data.image_usage_fences[i])

\* C24: whenever update_uniform_buffer(image_index) overwrites
\* uniform_buffers_memory[image_index], every earlier submission that reads
\* the uniform buffer of that image index has completed.
UniformBufferWrittenOnlyWhenUnused ==
    [][ (TailStep /\ HasOp(log', "update_uniform_buffer")) =>
           \A k \in 1..(Len(gpu) - 1) :
              gpu[k].ubo = UniformBufferIndex(image_index)
                 => gpu[k].st = "done" ]_vars

\* C25: between render calls and inside a render call, self.frame is a valid
\* index into command_completion_fences, image_available_semaphores and
\* render_finished_semaphores, and every image index the swapchain can return
\* is a valid index into image_usage_fences, command_buffers and
\* uniform_buffers_memory.
RenderIndicesInBounds ==
    pc \in {"idle", "wait_image"} =>
        /\ frame < Len(data.command_completion_fences)
        /\ frame < Len(data.image_available_semaphores)
        /\ frame < Len(data.render_finished_semaphores)
        /\ \A i \in 0..(data.swapchain_images - 1) :
              /\ i < Len(data.image_usage_fences)
              /\ i < data.command_buffers
              /\ i < data.uniform_buffers_memory

\* Every entry of image_usage_fences is null or one of the slot fences held
\* in command_completion_fences
ImageFencesAreSlotFences(d) ==
    \A i \in 1..Len(d.image_usage_fences) :
       \/ d.image_usage_fences[i] = NullFence
       \/ \E k \in 1..Len(d.command_completion_fences) :
             d.command_completion_fences[k] = d.image_usage_fences[i]

\* C26: every entry of image_usage_fences is null or a fence currently held
\* in command_completion_fences; render changes only the entry of the
\* acquired image, to the fence of the slot that is about to submit for it;
\* and the fence render passes to wait_for_fences, reset_fences and
\* queue_submit is never the null handle.
ImageFencesAliasLiveSlotFences ==
    /\ [](pc \in {"idle", "wait_image"} => ImageFencesAreSlotFences(data))
    /\ [][ /\ (AcquireStep /\ HasOp(log', "wait_for_fences")) =>
                 SlotFence(data, frame) # NullFence
           /\ data'.image_usage_fences # data.image_usage_fences =>
                 /\ TailStep
                 /\ data'.image_usage_fences =
                       [data.image_usage_fences
                          EXCEPT ![image_index + 1] = SlotFence(data, frame)]
           /\ (TailStep /\ HasOp(log', "reset_fences")) =>
                 SlotFence(data, frame) # NullFence ]_vars

\* Field o holds handles that were created and have not been destroyed
Held(d, o) == StatusOf(d, o) \in {"live", "stale"}

\* The fence handles a vector of fences holds
FencesHeld(v) == {v[k] : k \in 1..Len(v)} \ {NullFence}

\* C27: every recreation destroys each object of the old swapchain once (the
\* objects were live when destroyed) and drops no slot fence from
\* command_completion_fences; App::destroy finds every swapchain-scoped
\* object live and destroys it, and destroys every fence and every semaphore
\* that was created exactly once, the fences aliased in image_usage_fences
\* not a second time.
EveryHandleDestroyedExactlyOnce ==
    [][ /\ (RecreateReturns /\ HasEntry(log', "device_wait_idle", "SUCCESS")) =>
              /\ \A o \in ScopedObjects : Held(data, o)
              /\ FencesHeld(data'.command_completion_fences) =
                    FencesHeld(data.command_completion_fences)
        /\ (CloseReturns /\ pc' = "closed") =>
              /\ \A o \in ScopedObjects :
                    Held(data, o) /\ StatusOf(data', o) = "destroyed"
              /\ \A f \in FenceHandles :
                    OpCount(SelectSeq(log', LAMBDA e :
                               e.res = "fence" \o ToString(f)), "destroy_fence") = 1
              /\ \A x \in SemaphoreHandles :
                    OpCount(SelectSeq(log', LAMBDA e :
                               e.res = "semaphore" \o ToString(x)),
                            "destroy_semaphore") = 1 ]_vars

\* C28: App::destroy runs at most once (never on an App it has already
\* destroyed), and once it has run no App::render call is made, whatever
\* window events follow the first CloseRequested.
DestroyRunsOnceNoRenderAfter ==
    [][ /\ (CloseReturns /\ HasOp(log', "destroy_instance")) => ~Destroyed(data)
        /\ Destroyed(data) =>
              /\ pc' \notin {"wait_image", "recreate_after_acquire",
                             "recreate_after_present", "idle"}
              /\ ~HasOp(log', "wait_for_fences")
              /\ calls' = calls ]_vars

----------------------------------------------------------------------------
(* load_model (vulkan/model.rs): the meshes read from the OBJ file are       *)
(* turned into data.vertices and data.indices.  A mesh holds flat arrays of *)
(* positions (3 per vertex) and texture coordinates (2 per vertex) and a    *)
(* list of 0-based indices.  The Eq and Hash of Vertex that the HashMap     *)
(* relies on are not part of the sources: two vertices are equal when all   *)
(* their components are.                                                     *)

\* Most models in the file, most vertices and most indices of a mesh
MaxModels == 2

MaxMeshVertices == 2

MaxMeshIndices == 2

\* The positions and texture coordinates a mesh vertex takes in the model
Points == { <<0, 0, 0>>, <<1, 0, 1>> }

TexCoords == { <<0, 0>>, <<0, 1>> }

RECURSIVE Flatten(_)
\* [x1, y1, z1, x2, y2, z2, ...]
Flatten(s) == IF s = << >> THEN << >> ELSE Head(s) \o Flatten(Tail(s))

\* What tobj::load_obj_buf returns for one model
Meshes ==
    UNION { { [ positions |-> Flatten(p),
                texcoords |-> Flatten(t),
                indices   |-> ix ] :
                p  \in [1..n -> Points],
                t  \in [1..n -> TexCoords],
                ix \in UNION { [1..l -> 0..(n - 1)] : l \in 1..MaxMeshIndices } } :
            n \in 1..MaxMeshVertices }

Models == UNION { [1..m -> Meshes] : m \in 1..MaxModels }

\* The Vertex of model.rs:35-50 for one mesh index
BuildVertex(mesh, index) ==
    LET pos_offset       == 3 * index
        tex_coord_offset == 2 * index
    IN  [ pos       |-> << mesh.positions[pos_offset + 1],
                           mesh.positions[pos_offset + 2],
                           mesh.positions[pos_offset + 3] >>,
          color     |-> << 1, 1, 1 >>,
          tex_coord |-> << mesh.texcoords[tex_coord_offset + 1],
                           1 - mesh.texcoords[tex_coord_offset + 2] >> ]

\* Option::None (of HashMap::get, of Iterator::find)
None == -1

\* Variant: the lookup never finds the vertex
HashMapGet_neverFound(m, v) == None

\* unique_vertices.get(&vertex)
HashMapGet(m, v) == IF v \in DOMAIN m THEN m[v] ELSE None

\* unique_vertices.insert(vertex, index)
HashMapInsert(m, v, i) == [x \in DOMAIN m \cup {v} |-> IF x = v THEN i ELSE m[x]]

\* The body of the inner loop (model.rs:25-60); st holds data.vertices,
\* data.indices and unique_vertices
LoadIndex(st, mesh, index) ==
    LET vertex == BuildVertex(mesh, index)
        found  == HashMapGet(st.unique_vertices, vertex)
    IN  IF found # None
        THEN [st EXCEPT !.indices = Append(@, found)]
        ELSE LET new == Len(st.vertices)
             IN  [ vertices        |-> Append(st.vertices, vertex),
                   indices         |-> Append(st.indices, new),
                   unique_vertices |-> HashMapInsert(st.unique_vertices, vertex, new) ]

RECURSIVE LoadMesh(_, _, _)
\* for index in &model.mesh.indices, from the k-th index on
LoadMesh(st, mesh, k) ==
    IF k > Len(mesh.indices) THEN st
    ELSE LoadMesh(LoadIndex(st, mesh, mesh.indices[k]), mesh, k + 1)

RECURSIVE LoadModels(_, _, _)
\* for model in models, from the m-th model on
LoadModels(st, models, m) ==
    IF m > Len(models) THEN st
    ELSE LoadModels(LoadMesh(st, models[m], 1), models, m + 1)

\* load_model(data) when the file holds models
load_model(d, models) ==
    LET st == LoadModels([ vertices        |-> d.vertices,
                           indices         |-> d.indices,
                           unique_vertices |-> << >> ], models, 1)
    IN  [d EXCEPT !.vertices = st.vertices, !.indices = st.indices]

\* App::create is about to call load_model: data.vertices and data.indices
\* are empty (AppData::default()) and the file has been parsed
LoadModelInit ==
    /\ \E models \in Models :
         log = << [op |-> "load_obj_buf", res |-> models] >>
    /\ pc = "load_model"
    /\ data = [vertices |-> << >>, indices |-> << >>]
    /\ frame = 0
    /\ resized = FALSE
    /\ image_index = 0
    /\ ret = "none"
    /\ fenceSignaled = << >>
    /\ semSignaled = << >>
    /\ gpu = << >>
    /\ resizeEvent = FALSE
    /\ calls = 0

\* load_model runs to its end and returns Ok(())
LoadModel ==
    /\ pc = "load_model"
    /\ pc' = "model_loaded"
    /\ data' = load_model(data, log[1].res)
    /\ ret' = "Ok"
    /\ UNCHANGED <<frame, resized, image_index, log, fenceSignaled,
                   semSignaled, gpu, resizeEvent, calls>>

LoadModelNext == LoadModel

SpecLoadModel == LoadModelInit /\ [][LoadModelNext]_vars

\* The vertices built from the mesh indices, in the order they are read
RECURSIVE VerticesRead(_)
VerticesRead(models) ==
    IF models = << >> THEN << >>
    ELSE [k \in 1..Len(Head(models).indices) |->
             BuildVertex(Head(models), Head(models).indices[k])]
         \o VerticesRead(Tail(models))

\* Position in s of the first element equal to x
FirstOccurrence(s, x) == CHOOSE k \in 1..Len(s) :
                            s[k] = x /\ \A j \in 1..(k - 1) : s[j] # x

\* C29: after load_model, data.vertices holds no two equal vertices, every
\* index is smaller than data.vertices.len(), data.indices has one entry per
\* mesh index read, data.vertices[data.indices[k]] is the vertex built from
\* the k-th mesh index, and the vertices are numbered in the order of their
\* first occurrence.
LoadModelDeduplicates ==
    pc = "model_loaded" =>
        LET vs   == data.vertices
            ix   == data.indices
            read == VerticesRead(log[1].res)
        IN  /\ \A a, b \in 1..Len(vs) : a # b => vs[a] # vs[b]
            /\ \A k \in 1..Len(ix) : ix[k] >= 0 /\ ix[k] < Len(vs)
            /\ Len(ix) = Len(read)
            /\ \A k \in 1..Len(ix) : vs[ix[k] + 1] = read[k]
            /\ \A k \in 1..Len(ix) :
                  ix[k] = Cardinality({ read[j] :
                              j \in 1..(FirstOccurrence(read, read[k]) - 1) })

\* C29 witness: two models were read, the second holds the two vertices of
\* the first in the opposite order, and four mesh indices became two vertices
SecondModelReusedVertex ==
    /\ pc = "model_loaded"
    /\ Len(log[1].res) = 2
    /\ data.indices = << 0, 1, 1, 0 >>
    /\ Len(data.vertices) = 2
    /\ log[1].res[1].indices = << 0, 1 >>
    /\ log[1].res[2].indices = << 0, 1 >>

----------------------------------------------------------------------------
(* get_memory_type_index (vulkan/buffers/buffer.rs, vulkan/buffer.rs):       *)
(* the first memory type allowed by the requirements that has the wanted    *)
(* properties.  Flags and memory_type_bits are bit masks.                    *)

\* Largest memory_type_count and number of property flag bits in the model
MaxMemoryTypes == 3

NumPropertyFlagBits == 2

PropertyFlags == 0..(2 ^ NumPropertyFlagBits - 1)

\* x & (1 << i) != 0
BitSet(x, i) == (x \div (2 ^ i)) % 2 = 1

\* Flags::contains: every bit of wanted is set in flags
FlagsContain(flags, wanted) ==
    \A b \in 0..(NumPropertyFlagBits - 1) : BitSet(wanted, b) => BitSet(flags, b)

\* Variant: the property flags of the memory type are not looked at
MemoryTypeSuitable_anyProperties(memory, properties, requirements, i) ==
    BitSet(requirements.memory_type_bits, i)

\* The closure handed to find (buffer.rs:48-53); memory_types[i] of the
\* source is memory_types[i + 1] here
MemoryTypeSuitable(memory, properties, requirements, i) ==
    LET suitable    == BitSet(requirements.memory_type_bits, i)
        memory_type == memory.memory_types[i + 1]
    IN  suitable /\ FlagsContain(memory_type.property_flags, properties)

RECURSIVE FindMemoryType(_, _, _, _)
\* (i..memory.memory_type_count).find(..)
FindMemoryType(memory, properties, requirements, i) ==
    IF i >= memory.memory_type_count THEN None
    ELSE IF MemoryTypeSuitable(memory, properties, requirements, i) THEN i
    ELSE FindMemoryType(memory, properties, requirements, i + 1)

\* get_memory_type_index: Ok(index) or the error
get_memory_type_index(memory, properties, requirements) ==
    LET found == FindMemoryType(memory, properties, requirements, 0)
    IN  IF found # None
        THEN [ok |-> TRUE,  value |-> found]
        ELSE [ok |-> FALSE, value |-> "Failed to find suitable memory type."]

\* What get_physical_device_memory_properties may report: an array of
\* MaxMemoryTypes memory types of which the first memory_type_count count
PhysicalDeviceMemoryProperties ==
    [ memory_type_count : 0..MaxMemoryTypes,
      memory_types      : [1..MaxMemoryTypes -> [property_flags : PropertyFlags]] ]

MemoryRequirements ==
    [ memory_type_bits : 0..(2 ^ MaxMemoryTypes - 1) ]

\* get_memory_type_index has been called and has read the device's memory
\* properties
MemoryTypeInit ==
    /\ \E memory \in PhysicalDeviceMemoryProperties,
          properties \in PropertyFlags,
          requirements \in MemoryRequirements :
         log = << [op  |-> "get_memory_type_index",
                   res |-> [memory       |-> memory,
                            properties   |-> properties,
                            requirements |-> requirements]] >>
    /\ pc = "get_memory_type_index"
    /\ data = AppDataDefault
    /\ frame = 0
    /\ resized = FALSE
    /\ image_index = 0
    /\ ret = "none"
    /\ fenceSignaled = << >>
    /\ semSignaled = << >>
    /\ gpu = << >>
    /\ resizeEvent = FALSE
    /\ calls = 0

\* get_memory_type_index returns
MemoryTypeReturn ==
    /\ pc = "get_memory_type_index"
    /\ pc' = "memory_type_returned"
    /\ ret' = get_memory_type_index(log[1].res.memory, log[1].res.properties,
                                    log[1].res.requirements)
    /\ UNCHANGED <<data, frame, resized, image_index, log, fenceSignaled,
                   semSignaled, gpu, resizeEvent, calls>>

MemoryTypeNext == MemoryTypeReturn

SpecMemoryType == MemoryTypeInit /\ [][MemoryTypeNext]_vars

\* Index i is below memory_type_count, allowed by memory_type_bits, and its
\* memory type has every wanted property flag
MeetsBoth(a, i) ==
    /\ i < a.memory.memory_type_count
    /\ (a.requirements.memory_type_bits \div (2 ^ i)) % 2 = 1
    /\ \A b \in 0..(NumPropertyFlagBits - 1) :
          (a.properties \div (2 ^ b)) % 2 = 1 =>
             (a.memory.memory_types[i + 1].property_flags \div (2 ^ b)) % 2 = 1

\* C30: get_memory_type_index returns the smallest index below
\* memory_type_count whose bit is set in memory_type_bits and whose memory
\* type contains every requested property flag, and returns the error
\* "Failed to find suitable memory type." exactly when there is no such index.
MemoryTypeIndexIsFirstSuitable ==
    pc = "memory_type_returned" =>
        LET a == log[1].res
        IN  /\ ret.ok =>
                 /\ ret.value \in 0..(MaxMemoryTypes - 1)
                 /\ MeetsBoth(a, ret.value)
                 /\ \A j \in 0..(ret.value - 1) : ~MeetsBoth(a, j)
            /\ ~ret.ok => ret.value = "Failed to find suitable memory type."
            /\ ~ret.ok <=> ~\E j \in 0..(MaxMemoryTypes - 1) : MeetsBoth(a, j)

\* C30 witness: memory type 0 is allowed by the requirements but lacks a
\* wanted property, memory type 1 has the properties but is not allowed, and
\* index 2 is returned
MemoryTypeSkippedUnsuitable ==
    /\ pc = "memory_type_returned"
    /\ ret.ok /\ ret.value = 2
    /\ BitSet(log[1].res.requirements.memory_type_bits, 0)
    /\ ~BitSet(log[1].res.requirements.memory_type_bits, 1)
    /\ FlagsContain(log[1].res.memory.memory_types[2].property_flags,
                    log[1].res.properties)
    /\ log[1].res.properties = 3

====
